---- MODULE Spec2Model ----
(***************************************************************************)
(* pocket-cli (cmd/pocket/main.go): credential acquisition and command     *)
(* dispatch.  A process run is app.Before (getConsumerKey, then            *)
(* restoreAccessToken, then api.NewClient) followed by one command action. *)
(* restoreAccessToken loads auth.json or runs obtainAccessToken, which     *)
(* starts an httptest server whose handler sends on an unbuffered channel. *)
(* The two credential files persist from one process run to the next.      *)
(***************************************************************************)
EXTENDS Integers, Sequences, FiniteSets, TLC

\* ---------------------------------------------------------------- bounds
MaxRuns == 2      \* process runs in one behaviour
MaxReq == 2       \* HTTP requests reaching the test server in one run
MaxStr == 1       \* length of an access token returned by the exchange
MaxInput == 2     \* bytes the operator types on standard input

\* ------------------------------------------------------------ characters
Q == "\""
BS == "\\"
NL == "\n"

RECURSIVE SeqsUpTo(_, _)
SeqsUpTo(S, n) ==
  IF n = 0 THEN {<<>>}
  ELSE LET shorter == SeqsUpTo(S, n - 1)
       IN shorter \cup {Append(s, c) : s \in {t \in shorter : Len(t) = n - 1}, c \in S}

Prefix(s, n) == SubSeq(s, 1, n)
Range(s) == {s[i] : i \in 1..Len(s)}

\* ----------------------------------------------------------------- files
NoFile == [exists |-> FALSE, data |-> <<>>]
File(d) == [exists |-> TRUE, data |-> d]

\* ------------------------------------------------- auth.Authorization
NilAuth == [nil |-> TRUE, AccessToken |-> <<>>, Username |-> <<>>]
Authorization(t, u) == [nil |-> FALSE, AccessToken |-> t, Username |-> u]

TokenChars == {"t", Q, BS}
Tokens == SeqsUpTo(TokenChars, MaxStr)
Usernames == {<<"u", Q>>}
Records == {Authorization(t, u) : t \in Tokens, u \in Usernames}

\* ------------------------------------------------ encoding/json, strings
\* an escaper that knows the quote but not the backslash
RECURSIVE EscapeString_QuotesOnly(_)
EscapeString_QuotesOnly(s) ==
  IF s = <<>> THEN <<>>
  ELSE (IF Head(s) = Q THEN <<BS, Head(s)>> ELSE <<Head(s)>>)
       \o EscapeString_QuotesOnly(Tail(s))

RECURSIVE EscapeString(_)
EscapeString(s) ==
  IF s = <<>> THEN <<>>
  ELSE (IF Head(s) \in {Q, BS} THEN <<BS, Head(s)>> ELSE <<Head(s)>>)
       \o EscapeString(Tail(s))

EncodeString(s) == <<Q>> \o EscapeString(s) \o <<Q>>

\* json.NewEncoder(w).Encode(v) for *auth.Authorization: one object, then "\n"
Encode(v) ==
  <<"{">> \o EncodeString(<<"access_token">>) \o <<":">> \o EncodeString(v.AccessToken)
  \o <<",">> \o EncodeString(<<"username">>) \o <<":">> \o EncodeString(v.Username)
  \o <<"}", NL>>

ScanFail == [ok |-> FALSE, val |-> <<>>, next |-> 0]

\* the body of a string literal from position j, up to its closing quote
RECURSIVE ScanString(_, _, _)
ScanString(s, j, acc) ==
  IF j > Len(s) THEN ScanFail
  ELSE IF s[j] = Q THEN [ok |-> TRUE, val |-> acc, next |-> j + 1]
  ELSE IF s[j] = NL THEN ScanFail
  ELSE IF s[j] = BS
       THEN IF j + 1 <= Len(s) /\ s[j + 1] \in {Q, BS}
            THEN ScanString(s, j + 2, Append(acc, s[j + 1]))
            ELSE ScanFail
  ELSE ScanString(s, j + 1, Append(acc, s[j]))

DecodeFail == [err |-> TRUE, v |-> Authorization(<<>>, <<>>)]

SetField(v, k, x) ==
  IF k = <<"access_token">> THEN [v EXCEPT !.AccessToken = x]
  ELSE IF k = <<"username">> THEN [v EXCEPT !.Username = x]
  ELSE v

\* the members of an object from position i: "key":"value" (, ...)* }
RECURSIVE DecodeMembers(_, _, _)
DecodeMembers(s, i, v) ==
  IF i > Len(s) \/ s[i] # Q THEN DecodeFail
  ELSE LET k == ScanString(s, i + 1, <<>>)
       IN IF ~k.ok \/ k.next + 1 > Len(s) \/ s[k.next] # ":" \/ s[k.next + 1] # Q
          THEN DecodeFail
          ELSE LET x == ScanString(s, k.next + 2, <<>>)
               IN IF ~x.ok \/ x.next > Len(s) THEN DecodeFail
                  ELSE IF s[x.next] = ","
                       THEN DecodeMembers(s, x.next + 1, SetField(v, k.val, x.val))
                  ELSE IF s[x.next] = "}"
                       THEN [err |-> FALSE, v |-> SetField(v, k.val, x.val)]
                  ELSE DecodeFail

\* json.NewDecoder(r).Decode(v): the first JSON value of the stream
Decode(s) ==
  IF Len(s) < 2 \/ s[1] # "{" THEN DecodeFail
  ELSE IF s[2] = "}" THEN [err |-> FALSE, v |-> Authorization(<<>>, <<>>)]
  ELSE DecodeMembers(s, 2, Authorization(<<>>, <<>>))

\* loadJSONFromFile: os.Open fails on a missing file, else Decode
loadJSONFromFile(f) ==
  IF ~f.exists THEN DecodeFail ELSE Decode(f.data)

\* a failed write leaves nothing, or everything but the last byte
ShortWrites(d) == {0, Len(d) - 1}

\* saveJSONToFile: the outcomes [file, err] of os.Create then Encode.
\* os.Create may fail (file untouched); it truncates, and the single write
\* of the encoded value may stop short.
saveJSONToFile(f, v) ==
  {[file |-> f, err |-> TRUE]}
  \cup {[file |-> File(Prefix(Encode(v), n)), err |-> TRUE] : n \in ShortWrites(Encode(v))}
  \cup {[file |-> File(Encode(v)), err |-> FALSE]}

\* --------------------------------------------------------- consumer key
\* bufio.Reader.ReadLine on standard input: the bytes before the first
\* newline; io.EOF when the input is empty
ReadLine(in) ==
  [err |-> in = <<>>,
   line |-> IF \E i \in 1..Len(in) : in[i] = NL
            THEN Prefix(in, (CHOOSE i \in 1..Len(in) :
                               in[i] = NL /\ \A j \in 1..(i - 1) : in[j] # NL) - 1)
            ELSE in]

\* bytes.SplitN(consumerKey, "\n", 2)[0]: the bytes before the first newline
FirstLine(d) ==
  IF \E i \in 1..Len(d) : d[i] = NL
  THEN Prefix(d, (CHOOSE i \in 1..Len(d) : d[i] = NL /\ \A j \in 1..(i - 1) : d[j] # NL) - 1)
  ELSE d

\* ioutil.WriteFile(path, data, 0600): the outcomes [file, err]; the open may
\* fail (no file appears), or the write may stop short
WriteFile(f, d) ==
  {[file |-> f, err |-> TRUE]}
  \cup {[file |-> File(Prefix(d, n)), err |-> TRUE] : n \in 0..(Len(d) - 1)}
  \cup {[file |-> File(d), err |-> FALSE]}

KeyChars == {"k", NL}
Inputs == SeqsUpTo(KeyChars, MaxInput)

\* ----------------------------------------------------------------- state
VARIABLES
  keyFile,      \* <configDir>/consumer_key
  authFile,     \* <configDir>/auth.json
  run,          \* number of the current process run
  pc,           \* position of the main goroutine
  stdin,        \* what the operator typed at the prompt in this run
  prompted,     \* getConsumerKey asked for the key in this run
  consumerKey,  \* getConsumerKey's return value
  listener,     \* the test server's listener: "unbound", "up", "closed"
  reqs,         \* the requests accepted by the test server, in arrival order
  got,          \* index in reqs of the handler whose send <-ch received, or 0
  requestToken, \* auth.ObtainRequestToken returned a token
  obtained,     \* obtainAccessToken's result [tok, err]
  ret,          \* restoreAccessToken's result [tok, err, returned]
  cacheHit,     \* loadJSONFromFile succeeded in this run
  authAtStart,  \* auth.json as restoreAccessToken found it
  client,       \* app.Metadata["client"]
  events,       \* the calls made in this run, in order
  prev          \* what the previous run returned

vars == <<keyFile, authFile, run, pc, stdin, prompted, consumerKey, listener, reqs, got,
          requestToken, obtained, ret, cacheHit, authAtStart, client, events, prev>>

files == <<keyFile, authFile>>
vars_but_pc == <<keyFile, authFile, run, stdin, prompted, consumerKey, listener, reqs, got,
                 requestToken, obtained, ret, cacheHit, authAtStart, client, events, prev>>
server == <<listener, reqs, got>>

Paths == {"/favicon.ico", "/"}
NoResult == [tok |-> NilAuth, err |-> FALSE, returned |-> FALSE]
NoSummary == [keyReturned |-> FALSE, consumerKey |-> <<>>, ret |-> NoResult]
NoClient == [set |-> FALSE, consumerKey |-> <<>>, accessToken |-> <<>>]
Log(e) == events' = Append(events, e)

\* the files a first run can find
InitKeyData == {<<"k", NL, "k">>}
InitAuthData ==
  {<<>>, <<"{", "}", NL>>}
  \cup {Encode(Authorization(<<"t">>, <<"u">>)), Prefix(Encode(Authorization(<<"t">>, <<"u">>)), 8)}

FreshRun ==
  /\ pc = "Before"
  /\ stdin = <<>>
  /\ prompted = FALSE
  /\ consumerKey = <<>>
  /\ listener = "unbound"
  /\ reqs = <<>>
  /\ got = 0
  /\ requestToken = FALSE
  /\ obtained = NoResult
  /\ ret = NoResult
  /\ cacheHit = FALSE
  /\ authAtStart = NoFile
  /\ client = NoClient
  /\ events = <<>>

Init ==
  /\ keyFile \in {NoFile} \cup {File(d) : d \in InitKeyData}
  /\ authFile \in {NoFile} \cup {File(d) : d \in InitAuthData}
  /\ run = 1
  /\ prev = NoSummary
  /\ FreshRun

\* ------------------------------------------------------------- app.Before
\* a panic in app.Before ends the process before any command action
Panic == pc' = "fatal"

\* a getConsumerKey that asks for the key on every run
getConsumerKey_AlwaysPrompt ==
  /\ pc = "Before"
  /\ \E in \in Inputs :
       /\ stdin' = in
       /\ prompted' = TRUE
       /\ Log("prompt")
       /\ IF ReadLine(in).err
          THEN Panic /\ UNCHANGED <<keyFile, consumerKey>>
          ELSE \E w \in WriteFile(keyFile, ReadLine(in).line) :
                 /\ keyFile' = w.file
                 /\ IF w.err
                    THEN Panic /\ UNCHANGED consumerKey
                    ELSE pc' = "restore" /\ consumerKey' = ReadLine(in).line
  /\ UNCHANGED <<authFile, run, server, requestToken, obtained, ret, cacheHit, authAtStart,
                 client, prev>>

getConsumerKey ==
  /\ pc = "Before"
  /\ IF keyFile.exists
     THEN /\ consumerKey' = FirstLine(keyFile.data)
          /\ pc' = "restore"
          /\ UNCHANGED <<keyFile, stdin, prompted, events>>
     ELSE \E in \in Inputs :
            /\ stdin' = in
            /\ prompted' = TRUE
            /\ Log("prompt")
            /\ IF ReadLine(in).err
               THEN Panic /\ UNCHANGED <<keyFile, consumerKey>>
               ELSE \E w \in WriteFile(keyFile, ReadLine(in).line) :
                      /\ keyFile' = w.file
                      /\ IF w.err
                         THEN Panic /\ UNCHANGED consumerKey
                         ELSE pc' = "restore" /\ consumerKey' = ReadLine(in).line
  /\ UNCHANGED <<authFile, run, server, requestToken, obtained, ret, cacheHit, authAtStart,
                 client, prev>>

\* restoreAccessToken that never trusts the file and always re-authorizes
restoreAccessToken_AlwaysObtain ==
  /\ pc = "restore"
  /\ authAtStart' = authFile
  /\ Log("load")
  /\ pc' = "NewServer"
  /\ cacheHit' = FALSE
  /\ UNCHANGED <<files, run, stdin, prompted, consumerKey, server, requestToken, obtained,
                 ret, client, prev>>

\* restoreAccessToken with the save outside the if: a loaded record is saved again
restoreAccessToken_SaveAlways ==
  /\ pc = "restore"
  /\ authAtStart' = authFile
  /\ Log("load")
  /\ LET r == loadJSONFromFile(authFile)
     IN IF r.err
        THEN pc' = "NewServer" /\ cacheHit' = FALSE /\ UNCHANGED obtained
        ELSE /\ pc' = "Save"
             /\ cacheHit' = TRUE
             /\ obtained' = [tok |-> r.v, err |-> FALSE, returned |-> TRUE]
  /\ UNCHANGED <<files, run, stdin, prompted, consumerKey, server, requestToken, ret,
                 client, prev>>

\* restoreAccessToken up to the load: a loaded record is returned at once
restoreAccessToken ==
  /\ pc = "restore"
  /\ authAtStart' = authFile
  /\ Log("load")
  /\ LET r == loadJSONFromFile(authFile)
     IN IF r.err
        THEN pc' = "NewServer" /\ cacheHit' = FALSE /\ UNCHANGED ret
        ELSE /\ pc' = "NewClient"
             /\ cacheHit' = TRUE
             /\ ret' = [tok |-> r.v, err |-> FALSE, returned |-> TRUE]
  /\ UNCHANGED <<files, run, stdin, prompted, consumerKey, server, requestToken, obtained,
                 client, prev>>

\* ------------------------------------------------------ obtainAccessToken
\* a server that is created but not started before the flow goes on
NewServer_Unstarted ==
  /\ pc = "NewServer"
  /\ pc' = "RequestToken"
  /\ UNCHANGED <<files, run, stdin, prompted, consumerKey, server, requestToken, obtained,
                 ret, cacheHit, authAtStart, client, events, prev>>

\* ch := make(chan struct{}); ts := httptest.NewServer(...); defer ts.Close()
NewServer ==
  /\ pc = "NewServer"
  /\ listener' = "up"
  /\ Log("bind")
  /\ pc' = "RequestToken"
  /\ UNCHANGED <<files, run, stdin, prompted, consumerKey, reqs, got, requestToken, obtained,
                 ret, cacheHit, authAtStart, client, prev>>

\* a request-credential call that is tried a second time when it fails
authObtainRequestToken_Retry ==
  /\ pc = "RequestToken"
  /\ Log("request")
  /\ \E ok \in BOOLEAN :
       IF ok
       THEN requestToken' = TRUE /\ pc' = "GenerateURL" /\ UNCHANGED obtained
       ELSE IF Len(SelectSeq(events, LAMBDA e : e = "request")) = 0
       THEN UNCHANGED <<pc, obtained, requestToken>>
       ELSE /\ obtained' = [tok |-> NilAuth, err |-> TRUE, returned |-> TRUE]
            /\ pc' = "Close"
            /\ UNCHANGED requestToken
  /\ UNCHANGED <<files, run, stdin, prompted, consumerKey, server, ret, cacheHit, authAtStart,
                 client, prev>>

authObtainRequestToken ==
  /\ pc = "RequestToken"
  /\ Log("request")
  /\ \E ok \in BOOLEAN :
       IF ok
       THEN requestToken' = TRUE /\ pc' = "GenerateURL" /\ UNCHANGED obtained
       ELSE /\ obtained' = [tok |-> NilAuth, err |-> TRUE, returned |-> TRUE]
            /\ pc' = "Close"
            /\ UNCHANGED requestToken
  /\ UNCHANGED <<files, run, stdin, prompted, consumerKey, server, ret, cacheHit, authAtStart,
                 client, prev>>

authGenerateAuthorizationURL ==
  /\ pc = "GenerateURL"
  /\ Log("url")
  /\ pc' = "PrintURL"
  /\ UNCHANGED <<files, run, stdin, prompted, consumerKey, server, requestToken, obtained, ret,
                 cacheHit, authAtStart, client, prev>>

\* an exchange attempted as soon as the URL is out, without the receive
PrintURL_NoWait ==
  /\ pc = "PrintURL"
  /\ Log("print")
  /\ pc' = "Exchange"
  /\ UNCHANGED <<files, run, stdin, prompted, consumerKey, server, requestToken, obtained, ret,
                 cacheHit, authAtStart, client, prev>>

PrintURL ==
  /\ pc = "PrintURL"
  /\ Log("print")
  /\ pc' = "Await"
  /\ UNCHANGED <<files, run, stdin, prompted, consumerKey, server, requestToken, obtained, ret,
                 cacheHit, authAtStart, client, prev>>

\* a handler without the favicon test: every request sends on ch
Handler_NoFaviconCheck(path) ==
  /\ listener = "up"
  /\ Len(reqs) < MaxReq
  /\ reqs' = Append(reqs,
       [path |-> path, status |-> 200, st |-> "send", early |-> "print" \notin Range(events)])
  /\ UNCHANGED <<files, run, pc, stdin, prompted, consumerKey, listener, got, requestToken,
                 obtained, ret, cacheHit, authAtStart, client, events, prev>>

\* the handler, up to its return (favicon) or to the send on ch
Handler(path) ==
  /\ listener = "up"
  /\ Len(reqs) < MaxReq
  /\ reqs' = Append(reqs,
       IF path = "/favicon.ico"
       THEN [path |-> path, status |-> 404, st |-> "done", early |-> "print" \notin Range(events)]
       ELSE [path |-> path, status |-> 200, st |-> "send", early |-> "print" \notin Range(events)])
  /\ UNCHANGED <<files, run, pc, stdin, prompted, consumerKey, listener, got, requestToken,
                 obtained, ret, cacheHit, authAtStart, client, events, prev>>

\* a receive in a loop: it goes on receiving while a handler is sending
Receive_Loop ==
  /\ pc = "Await"
  /\ \E i \in 1..Len(reqs) :
       /\ reqs[i].st = "send"
       /\ reqs' = [reqs EXCEPT ![i].st = "done"]
       /\ got' = i
       /\ pc' = IF \E j \in 1..Len(reqs) : j # i /\ reqs[j].st = "send" THEN "Await" ELSE "Exchange"
  /\ Log("await")
  /\ UNCHANGED <<files, run, stdin, prompted, consumerKey, listener, requestToken, obtained, ret,
                 cacheHit, authAtStart, client, prev>>

\* a receive that closes the listener as soon as the signal is consumed
Receive_CloseOnSignal ==
  /\ pc = "Await"
  /\ \E i \in 1..Len(reqs) :
       /\ reqs[i].st = "send"
       /\ reqs' = [reqs EXCEPT ![i].st = "done"]
       /\ got' = i
  /\ listener' = "closed"
  /\ Log("await")
  /\ pc' = "Exchange"
  /\ UNCHANGED <<files, run, stdin, prompted, consumerKey, requestToken, obtained, ret,
                 cacheHit, authAtStart, client, prev>>

\* a receive that only meets handlers of requests made after the display
Receive_LateOnly ==
  /\ pc = "Await"
  /\ \E i \in 1..Len(reqs) :
       /\ reqs[i].st = "send"
       /\ ~reqs[i].early
       /\ reqs' = [reqs EXCEPT ![i].st = "done"]
       /\ got' = i
  /\ Log("await")
  /\ pc' = "Exchange"
  /\ UNCHANGED <<files, run, stdin, prompted, consumerKey, listener, requestToken, obtained, ret,
                 cacheHit, authAtStart, client, prev>>

\* <-ch meets one handler's ch <- struct{}{}; that handler returns
Receive ==
  /\ pc = "Await"
  /\ \E i \in 1..Len(reqs) :
       /\ reqs[i].st = "send"
       /\ reqs' = [reqs EXCEPT ![i].st = "done"]
       /\ got' = i
  /\ Log("await")
  /\ pc' = "Exchange"
  /\ UNCHANGED <<files, run, stdin, prompted, consumerKey, listener, requestToken, obtained, ret,
                 cacheHit, authAtStart, client, prev>>

authObtainAccessToken ==
  /\ pc = "Exchange"
  /\ Log("exchange")
  /\ \/ \E r \in Records : obtained' = [tok |-> r, err |-> FALSE, returned |-> TRUE]
     \/ obtained' = [tok |-> NilAuth, err |-> TRUE, returned |-> TRUE]
  /\ pc' = "Close"
  /\ UNCHANGED <<files, run, stdin, prompted, consumerKey, server, requestToken, ret, cacheHit,
                 authAtStart, client, prev>>

\* a Close that is not deferred and is skipped on the error returns
tsClose_OnSuccessOnly ==
  /\ pc = "Close"
  /\ listener' = IF obtained.err THEN listener ELSE "closed"
  /\ Log("close")
  /\ pc' = "CloseWait"
  /\ UNCHANGED <<files, run, stdin, prompted, consumerKey, reqs, got, requestToken, obtained,
                 ret, cacheHit, authAtStart, client, prev>>

\* the deferred ts.Close(): the listener is closed at once ...
tsClose ==
  /\ pc = "Close"
  /\ listener' = "closed"
  /\ Log("close")
  /\ pc' = "CloseWait"
  /\ UNCHANGED <<files, run, stdin, prompted, consumerKey, reqs, got, requestToken, obtained,
                 ret, cacheHit, authAtStart, client, prev>>

\* a return from obtainAccessToken whose error is not looked at
tsCloseWait_NoErrorCheck ==
  /\ pc = "CloseWait"
  /\ \A i \in 1..Len(reqs) : reqs[i].st = "done"
  /\ pc' = "Save"
  /\ UNCHANGED <<files, run, stdin, prompted, consumerKey, server, requestToken, obtained, ret,
                 cacheHit, authAtStart, client, events, prev>>

\* an app.Before that logs the error of restoreAccessToken and carries on
tsCloseWait_NoPanic ==
  /\ pc = "CloseWait"
  /\ \A i \in 1..Len(reqs) : reqs[i].st = "done"
  /\ IF obtained.err
     THEN ret' = [tok |-> NilAuth, err |-> TRUE, returned |-> TRUE] /\ pc' = "NewClient"
     ELSE pc' = "Save" /\ UNCHANGED ret
  /\ UNCHANGED <<files, run, stdin, prompted, consumerKey, server, requestToken, obtained,
                 cacheHit, authAtStart, client, events, prev>>

\* ... and Close returns once every outstanding request has completed;
\* restoreAccessToken then returns a failure to app.Before, which panics
tsCloseWait ==
  /\ pc = "CloseWait"
  /\ \A i \in 1..Len(reqs) : reqs[i].st = "done"
  /\ IF obtained.err
     THEN ret' = [tok |-> NilAuth, err |-> TRUE, returned |-> TRUE] /\ Panic
     ELSE pc' = "Save" /\ UNCHANGED ret
  /\ UNCHANGED <<files, run, stdin, prompted, consumerKey, server, requestToken, obtained,
                 cacheHit, authAtStart, client, events, prev>>

\* a save whose failure is only logged: the credential is returned anyway
restoreAccessTokenSave_IgnoreError ==
  /\ pc = "Save"
  /\ Log("persist")
  /\ \E o \in saveJSONToFile(authFile, obtained.tok) :
       /\ authFile' = o.file
       /\ ret' = [tok |-> obtained.tok, err |-> FALSE, returned |-> TRUE]
       /\ pc' = "NewClient"
  /\ UNCHANGED <<keyFile, run, stdin, prompted, consumerKey, server, requestToken, obtained,
                 cacheHit, authAtStart, client, prev>>

\* restoreAccessToken after obtainAccessToken succeeded: save, then return
restoreAccessTokenSave ==
  /\ pc = "Save"
  /\ Log("persist")
  /\ \E o \in saveJSONToFile(authFile, obtained.tok) :
       /\ authFile' = o.file
       /\ IF o.err
          THEN ret' = [tok |-> NilAuth, err |-> TRUE, returned |-> TRUE] /\ Panic
          ELSE ret' = [tok |-> obtained.tok, err |-> FALSE, returned |-> TRUE] /\ pc' = "NewClient"
  /\ UNCHANGED <<keyFile, run, stdin, prompted, consumerKey, server, requestToken, obtained,
                 cacheHit, authAtStart, client, prev>>

\* client := api.NewClient(consumerKey, accessToken.AccessToken)
NewClient ==
  /\ pc = "NewClient"
  /\ client' = [set |-> TRUE, consumerKey |-> consumerKey, accessToken |-> ret.tok.AccessToken]
  /\ Log("client")
  /\ pc' = "Command"
  /\ UNCHANGED <<files, run, stdin, prompted, consumerKey, server, requestToken, obtained, ret,
                 cacheHit, authAtStart, prev>>

\* ---------------------------------------------------------- the commands
ItemOps == {"Retrieve", "Add", "Modify"}

\* one item operation through the client that app.Before stored
Invoke(op) ==
  /\ IF client.set THEN Log(op) /\ pc' = "exit" ELSE Panic /\ UNCHANGED events
  /\ UNCHANGED <<files, run, stdin, prompted, consumerKey, server, requestToken, obtained, ret,
                 cacheHit, authAtStart, client, prev>>

commandList ==
  /\ pc = "Command"
  /\ Invoke("Retrieve")

commandAdd ==
  /\ pc = "Command"
  /\ \E url \in {"", "u"} :
       IF url = "" THEN pc' = "exit" /\ UNCHANGED vars_but_pc ELSE Invoke("Add")

commandArchive ==
  /\ pc = "Command"
  /\ \E arg \in {"", "x", "1"} :
       IF arg \in {"", "x"} THEN pc' = "exit" /\ UNCHANGED vars_but_pc ELSE Invoke("Modify")

\* app.Run without a command: the help action
defaultAction ==
  /\ pc = "Command"
  /\ pc' = "exit"
  /\ UNCHANGED vars_but_pc

\* ------------------------------------------------------------ environment
\* the process has ended and the operator starts the program again
NextRun ==
  /\ pc \in {"exit", "fatal"}
  /\ run < MaxRuns
  /\ run' = run + 1
  /\ prev' = [keyReturned |-> pc = "exit" \/ ret.returned, consumerKey |-> consumerKey,
               ret |-> ret]
  /\ UNCHANGED files
  /\ pc' = "Before"
  /\ stdin' = <<>>
  /\ prompted' = FALSE
  /\ consumerKey' = <<>>
  /\ listener' = "unbound"
  /\ reqs' = <<>>
  /\ got' = 0
  /\ requestToken' = FALSE
  /\ obtained' = NoResult
  /\ ret' = NoResult
  /\ cacheHit' = FALSE
  /\ authAtStart' = NoFile
  /\ client' = NoClient
  /\ events' = <<>>

Next ==
  \/ getConsumerKey
  \/ restoreAccessToken
  \/ NewServer
  \/ authObtainRequestToken
  \/ authGenerateAuthorizationURL
  \/ PrintURL
  \/ \E path \in Paths : Handler(path)
  \/ Receive
  \/ authObtainAccessToken
  \/ tsClose
  \/ tsCloseWait
  \/ restoreAccessTokenSave
  \/ NewClient
  \/ commandList
  \/ commandAdd
  \/ commandArchive
  \/ defaultAction
  \/ NextRun

Spec == Init /\ [][Next]_vars

TypeOK ==
  /\ run \in 1..MaxRuns
  /\ Len(reqs) <= MaxReq
  /\ got \in 0..Len(reqs)

\* the program's own steps are scheduled; requests arrive and the operator
\* restarts the program only if they choose to
Program ==
  \/ getConsumerKey
  \/ restoreAccessToken
  \/ NewServer
  \/ authObtainRequestToken
  \/ authGenerateAuthorizationURL
  \/ PrintURL
  \/ Receive
  \/ authObtainAccessToken
  \/ tsClose
  \/ tsCloseWait
  \/ restoreAccessTokenSave
  \/ NewClient
  \/ commandList
  \/ commandAdd
  \/ commandArchive
  \/ defaultAction

FairSpec == Spec /\ WF_vars(Program)

\* ------------------------------------------------------------ vocabulary
Done(e) == e \in Range(events)
Count(e) == Cardinality({i \in 1..Len(events) : events[i] = e})
IsPrefix(s, t) == Len(s) <= Len(t) /\ s = Prefix(t, Len(s))
Returned(v) == [tok |-> v, err |-> FALSE, returned |-> TRUE]
Succeeded == ret.returned /\ ~ret.err
InObtain == {"RequestToken", "GenerateURL", "PrintURL", "Await", "Exchange", "Close", "CloseWait"}
RealHits == {i \in 1..Len(reqs) : reqs[i].path # "/favicon.ico"}
Delivered == {i \in RealHits : reqs[i].st = "done"}
WellFormed(f) == f.exists /\ ~Decode(f.data).err

\* C1: when auth.json is readable and well-formed as restoreAccessToken runs,
\* the loaded record is returned, the listener is never bound and none of
\* request-credential, URL construction, await-signal or exchange happens.
C1_CacheShortCircuit ==
  (Done("load") /\ WellFormed(authAtStart)) =>
     /\ ret = Returned(Decode(authAtStart.data).v)
     /\ listener = "unbound"
     /\ reqs = <<>>
     /\ Range(events) \cap {"bind", "request", "url", "print", "await", "exchange", "close"} = {}

C1_Witness ==
  /\ pc = "Command"
  /\ WellFormed(authAtStart)
  /\ ret.tok = Authorization(<<"t">>, <<"u">>)

\* C2 (as stated): a successful run from a missing or malformed record makes
\* the calls request-credential, URL construction, listener bind,
\* await-signal, exchange, persist, in that order, once each.
IsStep(e) == e \in {"request", "url", "bind", "await", "exchange", "persist"}
Steps == SelectSeq(events, IsStep)

C2_AsStated ==
  (Succeeded /\ ~cacheHit) =>
     Steps = <<"request", "url", "bind", "await", "exchange", "persist">>

\* C2 (amended): the listener is bound first; the calls are listener bind,
\* request-credential, URL construction, await-signal, exchange, persist, in
\* that order, once each, and no run makes them in any other order.
C2_BindFirstSequence ==
  /\ IsPrefix(Steps, <<"bind", "request", "url", "await", "exchange", "persist">>)
  /\ (Succeeded /\ ~cacheHit) =>
        Steps = <<"bind", "request", "url", "await", "exchange", "persist">>

C2_Witness ==
  /\ pc = "Command"
  /\ ~cacheHit
  /\ ~WellFormed(authAtStart)
  /\ Done("persist")

C4_WriteOnlyAfterFullFlow ==
  /\ [](Done("load") /\ ~Done("persist") => authFile = authAtStart)
  /\ [][authFile' # authFile =>
          /\ pc = "Save"
          /\ requestToken
          /\ Delivered # {}
          /\ Done("exchange") /\ obtained.returned /\ ~obtained.err]_vars

C4_Witness ==
  /\ pc = "fatal"
  /\ Done("exchange")
  /\ obtained.err
  /\ authAtStart.exists
  /\ authFile = authAtStart

\* C5: a request to /favicon.ico is answered 404, its handler returns without
\* sending on ch, and it never ends the orchestrator's wait; only a request to
\* another path is the one received from.
C5_FaviconIgnored ==
  /\ [](\A i \in 1..Len(reqs) :
          reqs[i].path = "/favicon.ico" =>
             reqs[i].status = 404 /\ reqs[i].st = "done" /\ got # i)
  /\ [](got # 0 => got \in RealHits)
  /\ [][(Len(reqs') > Len(reqs) /\ reqs'[Len(reqs')].path = "/favicon.ico") =>
          pc' = pc /\ got' = got /\ events' = events]_vars
  /\ [][(pc = "Await" /\ pc' # "Await") => got' \in RealHits /\ reqs[got'].st = "send"]_vars

C5_Witness ==
  /\ pc = "Await"
  /\ Len(reqs) = MaxReq
  /\ \A i \in 1..Len(reqs) : reqs[i].path = "/favicon.ico" /\ ~reqs[i].early

\* C6: however many requests to the real path arrive, the orchestrator
\* receives exactly one signal per acquisition that gets past the wait, no
\* second send is ever received, and the exchange is invoked at most once.
C6_SingleFire ==
  /\ Cardinality(Delivered) <= 1
  /\ Count("await") <= 1
  /\ Count("exchange") <= 1
  /\ Done("exchange") => Cardinality(Delivered) = 1 /\ Count("await") = 1 /\ Delivered = {got}

C6_Witness ==
  /\ Done("exchange")
  /\ Cardinality(RealHits) = MaxReq
  /\ Cardinality(Delivered) = 1

\* C7: when two or more requests to the real path have reached the listener
\* in an acquisition whose request-credential call succeeded, every handler
\* completes its send, the teardown completes and obtainAccessToken returns
\* the result of the exchange.
C7_NoDeadlock ==
  []((Cardinality(RealHits) >= 2 /\ requestToken) =>
       <>(/\ pc \notin InObtain
          /\ Done("exchange")
          /\ \A i \in 1..Len(reqs) : reqs[i].st = "done"))

\* C8: after a successful acquisition, loading auth.json yields the access
\* token and username that the exchange returned and that restoreAccessToken
\* returned; the next run then takes the cache-hit path and returns the same.
SameCredential(a, b) == a.AccessToken = b.AccessToken /\ a.Username = b.Username

C8_RoundTrip ==
  /\ (Succeeded /\ ~cacheHit) =>
        /\ ~loadJSONFromFile(authFile).err
        /\ SameCredential(loadJSONFromFile(authFile).v, obtained.tok)
        /\ SameCredential(ret.tok, obtained.tok)
  /\ (prev.ret.returned /\ ~prev.ret.err /\ Done("load")) =>
        /\ cacheHit
        /\ ret.returned /\ ~ret.err
        /\ SameCredential(ret.tok, prev.ret.tok)

C8_Witness ==
  /\ run = 2
  /\ pc = "Command"
  /\ cacheHit
  /\ ret.tok.AccessToken = <<BS>>
  /\ prev.ret = ret

\* C9: an item operation (Retrieve, Add, Modify) is invoked only after
\* restoreAccessToken has returned a credential in this run, through the
\* client built from it; a run that ends in the fatal state has run no
\* command action.
C9_CredentialBeforeItemOps ==
  /\ [](Range(events) \cap ItemOps # {} =>
          /\ Succeeded
          /\ ~ret.tok.nil
          /\ client.set
          /\ client.accessToken = ret.tok.AccessToken)
  /\ [](pc = "fatal" => Range(events) \cap ItemOps = {} /\ ~client.set)
  /\ [][pc = "fatal" => (pc' = "fatal" \/ run' = run + 1)]_vars

C9_Witness ==
  /\ pc = "exit"
  /\ Done("Modify")
  /\ Done("exchange")

\* C10: getConsumerKey prompts only when the key file cannot be read; it then
\* writes the first input line to the file and returns it; a key file that
\* exists is never rewritten, and the next run returns the same key without
\* prompting.
IsFirstLine(l, in) ==
  /\ IsPrefix(l, in)
  /\ NL \notin Range(l)
  /\ (Len(l) = Len(in) \/ in[Len(l) + 1] = NL)

Pos(e) == IF Done(e) THEN CHOOSE i \in 1..Len(events) : events[i] = e /\ ~\E j \in 1..(i - 1) : events[j] = e
          ELSE 0

\* C11: the listener is bound and accepting before the request-credential
\* call uses its address, before the URL is built and before the URL is
\* printed; the order is bind, build URL, display, wait.
C11_BindBeforeUse ==
  /\ [](Done("request") => Done("bind") /\ Pos("bind") < Pos("request"))
  /\ [](Done("url") => Done("bind") /\ Pos("bind") < Pos("url"))
  /\ [](Done("print") => Pos("bind") < Pos("url") /\ Pos("url") < Pos("print"))
  /\ [](pc = "Await" \/ Done("await") => Done("print"))
  /\ [][(Len(events') > Len(events) /\ events'[Len(events')] \in {"request", "url", "print"}) =>
          listener = "up" /\ listener' = "up"]_vars

C11_Witness ==
  /\ pc = "Await"
  /\ listener = "up"
  /\ events = <<"load", "bind", "request", "url", "print">>
  /\ reqs = <<>>

\* C12: auth.ObtainAccessToken is never invoked before the orchestrator has
\* received from a handler in the same run, whatever the interleaving.
C12_ExchangeAfterSignal ==
  /\ [](Done("exchange") =>
          /\ Done("await") /\ Pos("await") < Pos("exchange")
          /\ got \in RealHits /\ reqs[got].st = "done")
  /\ [][(Len(events') > Len(events) /\ events'[Len(events')] = "exchange") =>
          got \in RealHits /\ reqs[got].st = "done"]_vars

C12_Witness ==
  /\ pc = "Close"
  /\ Done("exchange")
  /\ Len(reqs) = 2
  /\ reqs[1].path = "/favicon.ico"
  /\ got = 2

\* the request-credential call of this run has failed
RequestFailed == Done("request") /\ ~requestToken /\ obtained.err

\* C13: when the request-credential call fails, the URL is never displayed,
\* the orchestrator never waits, no exchange is attempted and nothing is
\* retried; the teardown completes and the run ends in the fatal state with
\* the error returned, also when a non-favicon request reached the listener
\* while the call was in progress.
C13_RequestFailureIsFatal ==
  /\ [](RequestFailed =>
          /\ Range(events) \cap {"url", "print", "await", "exchange", "persist"} = {}
          /\ Count("request") = 1
          /\ pc \in {"Close", "CloseWait", "fatal"})
  /\ [](RequestFailed =>
          <>(/\ pc = "fatal"
             /\ ret = [tok |-> NilAuth, err |-> TRUE, returned |-> TRUE]
             /\ listener = "closed"))

\* C14: once obtainAccessToken has returned (credential obtained,
\* request-credential failed or exchange failed) the listener has been closed
\* and is never bound again in that run.
C14_ListenerReleased ==
  /\ []((Done("bind") /\ pc \notin InObtain) => listener = "closed" /\ Done("close"))
  /\ [](pc \in {"Save", "NewClient", "Command", "exit", "fatal"} => listener # "up")
  /\ [][(listener = "closed" /\ run' = run) => listener' = "closed"]_vars

C14_Witness ==
  /\ pc = "fatal"
  /\ RequestFailed
  /\ listener = "closed"
  /\ Len(reqs) = MaxReq

\* C15 (as stated): whenever the listener is bound, the orchestrator is
\* waiting on the rendezvous signal.
C15_AsStated ==
  listener = "up" => pc = "Await"

\* C15 (amended): the listener is bound from httptest.NewServer until the
\* deferred ts.Close: it is bound exactly while the orchestrator is at the
\* request-credential call, the URL construction, the display, the wait, the
\* exchange call or about to run the deferred Close.
C15_BoundThroughoutObtain ==
  listener = "up" <=> pc \in {"RequestToken", "GenerateURL", "PrintURL", "Await", "Exchange", "Close"}

C15_Witness ==
  /\ listener = "up"
  /\ pc = "Exchange"
  /\ Len(reqs) = 1

\* C16: the orchestrator leaves the wait only by receiving from a handler
\* (no timeout, no cancel); and once a request to the real path has reached
\* the listener, the acquisition eventually ends, with a credential returned
\* or in the fatal state.
C16_AwaitAndProgress ==
  /\ [][(pc = "Await" /\ pc' # "Await") =>
          pc' = "Exchange" /\ got' \in RealHits /\ reqs[got'].st = "send"]_vars
  /\ []((pc \in InObtain /\ RealHits # {}) => <>(ret.returned /\ pc \notin InObtain))

\* C17 (as stated): the request whose send the orchestrator received reached
\* the listener after the URL was displayed.
C17_AsStated ==
  got # 0 => ~reqs[got].early

\* C17 (amended): the signal comes from a non-favicon request that reached
\* the listener at any time after the bind; the receive happens after the
\* display, and a handler blocked at its send since before the display is
\* received from when the orchestrator reaches the wait.
C17_SignalFromAnyRealRequest ==
  /\ got # 0 => got \in RealHits /\ Done("print") /\ Pos("print") < Pos("await")
  /\ (pc = "Await" /\ \E i \in RealHits : reqs[i].st = "send") => ENABLED Receive

C17_Witness ==
  /\ Done("exchange")
  /\ got # 0
  /\ reqs[got].early
  /\ reqs[got].st = "done"

\* C18: on a cache hit auth.json is left as it was found; the save runs
\* only on the cache-miss branch, after the exchange, and at most once in a
\* process run.
C18_SaveOnlyOnMiss ==
  /\ [](cacheHit => authFile = authAtStart /\ ~Done("persist"))
  /\ [](Count("persist") <= 1)
  /\ [](Done("persist") => ~cacheHit /\ ~WellFormed(authAtStart) /\ Done("exchange"))
  /\ [][(cacheHit /\ run' = run) => authFile' = authFile]_vars

C18_Witness ==
  /\ run = 2
  /\ pc = "exit"
  /\ cacheHit
  /\ Done("Retrieve")
  /\ authFile = authAtStart
  /\ prev.ret.returned /\ ~prev.ret.err

====
